---- MODULE Spec2Model ----
(***************************************************************************)
(* NoteTube: the transcript extractor (extractVideoId, parseVTT,           *)
(* getTranscript), the note synthesizer (generateNotes) and the request    *)
(* handler (POST) that runs them in sequence.                              *)
(*                                                                         *)
(* Text the code inspects character by character (URLs, caption files,     *)
(* the caption listing) is a sequence of one-character strings.  Text the  *)
(* code only compares as a whole (error messages, intents, prompts) is a   *)
(* TLA+ string.                                                            *)
(***************************************************************************)
EXTENDS Integers, Sequences, FiniteSets, TLC

VARIABLES
    caller,        \* which entry point this behaviour exercises
    pc,            \* position of the running call
    body,          \* POST: the parsed request body (or the parse failure)
    url,           \* getTranscript/extractVideoId: the url argument
    urlShape,      \* how the url argument was put together (input bookkeeping)
    videoId,       \* result of extractVideoId
    tempId,        \* randomUUID() of the call, NoId before it is drawn
    fs,            \* temp directory: <<tempId, language tag>> -> .vtt content
    subtitleFile,  \* getTranscript local
    primaryThrew,  \* whether the primary execSync threw (timeout / non-zero)
    listOutput,    \* stdout of yt-dlp --list-subs, NoText before / on failure
    sourceLang,    \* getTranscript local
    vttContent,    \* getTranscript local, parseVTT argument
    transcript,    \* getTranscript local, parseVTT result
    error,         \* the Error caught by getTranscript's outer catch
    gtResult,      \* how getTranscript completed: returned text or thrown Error
    cleanups,      \* outcome of each cleanup attempt of the call, in order
    log,           \* external invocations and probes issued, in order
    intent,        \* generateNotes: the intent argument
    notesRev,      \* which revision of generateNotes is linked
    videoType,     \* generateNotes: the videoType argument
    subjects,      \* generateNotes local
    overview,      \* generateNotes local
    notesError,    \* the Error caught by generateNotes' catch
    notesResult,   \* how generateNotes completed
    completions,   \* chat.completions.create calls issued, in order
    response       \* POST: the NextResponse produced

vars == <<caller, pc, body, url, urlShape, videoId, tempId, fs, subtitleFile,
          primaryThrew, listOutput, sourceLang, vttContent, transcript, error,
          gtResult, cleanups, log, intent, notesRev, videoType, subjects,
          overview, notesError, notesResult, completions, response>>

----------------------------------------------------------------------------
(* Character-level text helpers                                            *)

\* null / undefined where a string is expected (never a text the code produces)
Null == <<"<null>">>

Lower == {"a", "b", "c", "d", "e", "f", "g", "h", "i", "j", "k", "l", "m",
          "n", "o", "p", "q", "r", "s", "t", "u", "v", "w", "x", "y", "z"}
Upper == {"A", "B", "C", "D", "E", "F", "G", "H", "I", "J", "K", "L", "M",
          "N", "O", "P", "Q", "R", "S", "T", "U", "V", "W", "X", "Y", "Z"}
Digit == {"0", "1", "2", "3", "4", "5", "6", "7", "8", "9"}

\* lit occurs in s starting at position i
LitAt(s, i, lit) ==
    /\ i >= 1
    /\ i + Len(lit) - 1 <= Len(s)
    /\ \A k \in 1..Len(lit) : s[i + k - 1] = lit[k]

\* String.prototype.includes
Includes(s, lit) == \E i \in 1..(Len(s) + 1) : LitAt(s, i, lit)

\* String.prototype.startsWith
StartsWith(s, lit) == LitAt(s, 1, lit)

----------------------------------------------------------------------------
(* extractVideoId                                                          *)

\* the quantifier {11} of the three patterns
IdLen == 11

\* the character class [a-zA-Z0-9_-]
IdChars == Lower \cup Upper \cup Digit \cup {"_", "-"}

WATCH == <<"y", "o", "u", "t", "u", "b", "e", ".", "c", "o", "m", "/",
           "w", "a", "t", "c", "h", "?", "v", "=">>
SHORT == <<"y", "o", "u", "t", "u", ".", "b", "e", "/">>
EMBED == <<"y", "o", "u", "t", "u", "b", "e", ".", "c", "o", "m", "/",
           "e", "m", "b", "e", "d", "/">>

\* the literal prefixes of the three regular expressions, in array order
patterns_NoShort == <<WATCH, EMBED>>

patterns == <<WATCH, SHORT, EMBED>>

\* the pattern (?:lit)([a-zA-Z0-9_-]{11}) matches at position i of u
PatternAt(u, i, lit) ==
    /\ LitAt(u, i, lit)
    /\ i + Len(lit) + IdLen - 1 <= Len(u)
    /\ \A k \in 0..(IdLen - 1) : u[i + Len(lit) + k] \in IdChars

\* url.match(pattern): capture group 1 of the leftmost match, or Null
Match(u, lit) ==
    LET hits == {i \in 1..Len(u) : PatternAt(u, i, lit)}
    IN  IF hits = {} THEN Null
        ELSE LET i == CHOOSE h \in hits : \A g \in hits : h <= g
             IN  SubSeq(u, i + Len(lit), i + Len(lit) + IdLen - 1)

RECURSIVE FirstMatch(_, _, _)
FirstMatch(u, pats, k) ==
    IF k > Len(pats) THEN Null
    ELSE IF Match(u, pats[k]) # Null THEN Match(u, pats[k])
    ELSE FirstMatch(u, pats, k + 1)

\* for (const pattern of patterns) { match ... return match[1] } return null
extractVideoId(u) == FirstMatch(u, patterns, 1)

----------------------------------------------------------------------------
(* URL inputs: scheme/host prefix, a path marker, a run of characters      *)
(* where the identifier goes, and a trailing query part.                   *)

UrlPrefixes ==
    { <<>>,
      <<"h", "t", "t", "p", "s", ":", "/", "/">>,
      <<"h", "t", "t", "p", "s", ":", "/", "/", "w", "w", "w", ".">>,
      <<"m", ".">> }

\* markers of the three recognized shapes
ShapeMarkers == {WATCH, SHORT, EMBED}

\* near misses and unrelated hosts
OtherMarkers ==
    { <<>>,
      <<"y", "o", "u", "t", "u", "b", "e", ".", "c", "o", "m", "/",
        "w", "a", "t", "c", "h", "?", "x", "=">>,
      <<"y", "o", "u", "t", "u", "b", "e", ".", "c", "o", "m", "/", "v", "/">>,
      <<"y", "o", "u", "t", "u", "b", "e", "x", "c", "o", "m", "/",
        "w", "a", "t", "c", "h", "?", "v", "=">>,
      <<"y", "o", "u", "t", "u", ".", "b", "e">>,
      <<"v", "i", "m", "e", "o", ".", "c", "o", "m", "/">>,
      <<"n", "o", "t", " ", "a", " ", "u", "r", "l">> }

\* how far from IdLen the identifier runs tried reach, on either side
IdSlack == 1

IdSeeds ==
    { <<"d", "Q", "w", "4", "w", "9", "W", "g", "X", "c", "Q", "Z", "k", "7">>,
      <<"a", "_", "-", "4", "5", "6", "7", "8", "9", "0", "1", "b", "c", "d">>,
      <<"d", "Q", "w", "4", "w", "!", "W", "g", "X", "c", "Q", "Z", "k", "7">>,
      <<"d", "Q", "w", "4", "w", "9", "W", "g", "X", "c", ".", "Z", "k", "7">> }

\* the seeds cut to fewer, exactly, and more than IdLen characters
IdRuns ==
    {<<>>} \cup {SubSeq(s, 1, n) : s \in IdSeeds,
                                   n \in (IdLen - IdSlack)..(IdLen + IdSlack)}

UrlSuffixes ==
    { <<>>,
      <<"&", "t", "=", "4", "2", "s">>,
      <<"?", "s", "i", "=", "a", "b", "c">>,
      <<"/">> }

UrlShapes ==
    [pre : UrlPrefixes, marker : ShapeMarkers \cup OtherMarkers,
     run : IdRuns, suf : UrlSuffixes]

UrlOf(sh) == sh.pre \o sh.marker \o sh.run \o sh.suf

NoShape == [pre |-> <<>>, marker |-> <<>>, run |-> <<>>, suf |-> <<>>]

----------------------------------------------------------------------------
(* parseVTT                                                                *)

\* what String.prototype.trim and \s treat as white space inside a line
WS == {" ", "\t", "\r"}

RECURSIVE TrimLeft(_)
TrimLeft(s) ==
    IF s # <<>> /\ Head(s) \in WS THEN TrimLeft(Tail(s)) ELSE s

RECURSIVE TrimRight(_)
TrimRight(s) ==
    IF s # <<>> /\ s[Len(s)] \in WS THEN TrimRight(SubSeq(s, 1, Len(s) - 1))
    ELSE s

Trim(s) == TrimRight(TrimLeft(s))

\* vttContent.split("\n")
RECURSIVE SplitLines(_)
SplitLines(s) ==
    LET nl == {i \in 1..Len(s) : s[i] = "\n"}
    IN  IF nl = {} THEN <<s>>
        ELSE LET i == CHOOSE h \in nl : \A g \in nl : h <= g
             IN  <<SubSeq(s, 1, i - 1)>> \o SplitLines(SubSeq(s, i + 1, Len(s)))

\* s.replace(/lit/g, rep): leftmost, non-overlapping occurrences
RECURSIVE ReplaceAll(_, _, _)
ReplaceAll(s, lit, rep) ==
    IF s = <<>> THEN <<>>
    ELSE IF LitAt(s, 1, lit)
         THEN rep \o ReplaceAll(SubSeq(s, Len(lit) + 1, Len(s)), lit, rep)
         ELSE <<Head(s)>> \o ReplaceAll(Tail(s), lit, rep)

\* s.replace(/<[^>]+>/g, ""): a "<", at least one character that is not
\* ">", and the next ">"
RECURSIVE StripTags(_)
StripTags(s) ==
    IF s = <<>> THEN <<>>
    ELSE LET gt == {j \in 2..Len(s) : s[j] = ">"}
             j  == CHOOSE h \in gt : \A g \in gt : h <= g
         IN  IF Head(s) = "<" /\ gt # {} /\ j >= 3
             THEN StripTags(SubSeq(s, j + 1, Len(s)))
             ELSE <<Head(s)>> \o StripTags(Tail(s))

WEBVTT == <<"W", "E", "B", "V", "T", "T">>
KIND == <<"K", "i", "n", "d", ":">>
LANGUAGE == <<"L", "a", "n", "g", "u", "a", "g", "e", ":">>
ARROW == <<"-", "-", ">">>

\* trimmed === "WEBVTT" || startsWith("Kind:") || startsWith("Language:")
IsHeader(trimmed) ==
    \/ trimmed = WEBVTT
    \/ StartsWith(trimmed, KIND)
    \/ StartsWith(trimmed, LANGUAGE)

\* trimmed.includes("-->")
IsTiming(trimmed) == Includes(trimmed, ARROW)

\* trimmed === "" || /^\d+$/.test(trimmed)
IsBlankOrIndex(trimmed) ==
    \/ trimmed = <<>>
    \/ \A i \in 1..Len(trimmed) : trimmed[i] \in Digit

\* trimmed.match(/^[\d:.,\s->]+$/)
TimingChars == Digit \cup WS \cup {":", ".", ",", "-", ">"}

IsTimingResidue(trimmed) ==
    /\ trimmed # <<>>
    /\ \A i \in 1..Len(trimmed) : trimmed[i] \in TimingChars

Skipped_NoResidue(trimmed) ==
    \/ IsHeader(trimmed)
    \/ IsTiming(trimmed)
    \/ IsBlankOrIndex(trimmed)

Skipped(trimmed) ==
    \/ IsHeader(trimmed)
    \/ IsTiming(trimmed)
    \/ IsBlankOrIndex(trimmed)
    \/ IsTimingResidue(trimmed)

\* the replace chain and the final trim
CleanLine_NoFinalTrim(trimmed) ==
    LET r0 == StripTags(trimmed)
        r1 == ReplaceAll(r0, <<"&", "n", "b", "s", "p", ";">>, <<" ">>)
        r2 == ReplaceAll(r1, <<"&", "a", "m", "p", ";">>, <<"&">>)
        r3 == ReplaceAll(r2, <<"&", "l", "t", ";">>, <<"<">>)
        r4 == ReplaceAll(r3, <<"&", "g", "t", ";">>, <<">">>)
        r5 == ReplaceAll(r4, <<"&", "q", "u", "o", "t", ";">>, <<"\"">>)
    IN  ReplaceAll(r5, <<"&", "#", "3", "9", ";">>, <<"'">>)

CleanLine(trimmed) ==
    LET r0 == StripTags(trimmed)
        r1 == ReplaceAll(r0, <<"&", "n", "b", "s", "p", ";">>, <<" ">>)
        r2 == ReplaceAll(r1, <<"&", "a", "m", "p", ";">>, <<"&">>)
        r3 == ReplaceAll(r2, <<"&", "l", "t", ";">>, <<"<">>)
        r4 == ReplaceAll(r3, <<"&", "g", "t", ";">>, <<">">>)
        r5 == ReplaceAll(r4, <<"&", "q", "u", "o", "t", ";">>, <<"\"">>)
        r6 == ReplaceAll(r5, <<"&", "#", "3", "9", ";">>, <<"'">>)
    IN  Trim(r6)

\* textLines.includes(x)
InList_LastOnly(list, x) == list # <<>> /\ list[Len(list)] = x

InList(list, x) == \E i \in 1..Len(list) : list[i] = x

\* the body of the for loop, applied to lines[k..]
RECURSIVE TextLines(_, _, _)
TextLines(lines, k, textLines) ==
    IF k > Len(lines) THEN textLines
    ELSE LET trimmed == Trim(lines[k])
             cleanedLine == CleanLine(trimmed)
         IN  IF Skipped(trimmed) THEN TextLines(lines, k + 1, textLines)
             ELSE IF cleanedLine # <<>> /\ ~InList(textLines, cleanedLine)
                  THEN TextLines(lines, k + 1, Append(textLines, cleanedLine))
                  ELSE TextLines(lines, k + 1, textLines)

\* Array.prototype.join
RECURSIVE Join(_, _)
Join(list, sep) ==
    IF list = <<>> THEN <<>>
    ELSE IF Len(list) = 1 THEN list[1]
    ELSE list[1] \o sep \o Join(Tail(list), sep)

parseVTT(content) == Join(TextLines(SplitLines(content), 1, <<>>), <<" ">>)

----------------------------------------------------------------------------
(* Caption files the tool may write                                        *)

VttHeaderLines ==
    << WEBVTT,
       <<"K", "i", "n", "d", ":", " ", "c", "a", "p", "t", "i", "o", "n", "s">>,
       <<"L", "a", "n", "g", "u", "a", "g", "e", ":", " ", "e", "n">>,
       <<>> >>

Timing1 == <<"0", "0", ":", "0", "1", " ", "-", "-", ">", " ", "0", "0", ":", "0", "3">>
Timing2 == <<"0", "0", ":", "0", "3", " ", "-", "-", ">", " ", "0", "0", ":", "0", "5",
             " ", "a", "l", "i", "g", "n", ":", "s", "t", "a", "r", "t">>

\* header, metadata, cue indexes and timing lines only
VttNoText ==
    Join(VttHeaderLines \o << <<"1">>, Timing1, <<>>, <<"2">>, Timing2, <<>> >>,
         <<"\n">>)

\* rolling auto-generated captions: the previous cue's line is repeated
VttRolling ==
    Join(VttHeaderLines \o
         << Timing1,
            <<"<", "c", ">", "h", "i", "<", "/", "c", ">", " ", "y", "o", "u">>,
            <<>>,
            Timing2,
            <<"h", "i", " ", "y", "o", "u">>,
            <<"m", "e", " ", "&", "a", "m", "p", ";", " ", "u">>,
            <<>> >>,
         <<"\n">>)

\* a file the tool was killed before writing anything into
VttEmpty == <<>>

VttFiles == {VttNoText, VttRolling, VttEmpty}

----------------------------------------------------------------------------
(* Caption file contents parseVTT is applied to on its own                 *)

\* the lines the contents are made of; Timing1 and the empty line come first
ParseLines ==
    << Timing1,
       <<>>,
       \* the header line
       <<"W", "E", "B", "V", "T", "T">>,
       \* a metadata line
       <<"K", "i", "n", "d", ":", " ", "c", "a", "p", "t", "i", "o", "n", "s">>,
       \* a cue index
       <<"1", "2">>,
       \* a timing residue
       <<"0", ":", "0", "1", ".", "5", " ", ",">>,
       \* plain text
       <<"h", "i", " ", "y", "o", "u">>,
       \* the same text with cue markup and padding
       <<"\t", "<", "c", ">", "h", "i", "<", "/", "c", ">", "<", "0", "0", ":", "0", "1", ">", " ", "y", "o", "u", "\r">>,
       \* the same text in another case
       <<"H", "i", " ", "y", "o", "u">>,
       \* an entity
       <<"m", "e", " ", "&", "a", "m", "p", ";", " ", "u">>,
       \* escaped angle brackets around text
       <<"5", " ", "&", "l", "t", ";", " ", "6", " ", "&", "g", "t", ";", " ", "4">>,
       \* a trailing non-breaking space
       <<"u", "&", "n", "b", "s", "p", ";">>,
       \* markup around an index
       <<"<", "c", ">", "1", "2", "<", "/", "c", ">">> >>

\* the number of lines of a content
MaxLines == 3

ParseContents ==
    UNION {{Join([k \in 1..n |-> ParseLines[f[k]]], <<"\n">>) :
                f \in [1..n -> 1..Len(ParseLines)]} : n \in 1..MaxLines}
    \cup VttFiles

----------------------------------------------------------------------------
(* The temp directory and the caption tool (yt-dlp)                        *)

NoId == "none"

\* values randomUUID() may return
TempIds == {"u1"}

EN == <<"e", "n">>
EN_US == <<"e", "n", "-", "U", "S">>
EN_GB == <<"e", "n", "-", "G", "B">>
EN_ORIG == <<"e", "n", "-", "o", "r", "i", "g">>
EN_CA == <<"e", "n", "-", "C", "A">>
AR == <<"a", "r">>

\* no file: the null of `string | null`
NoFile == <<NoId, Null>>

\* `${tempPath}.${tag}.vtt`
File(id, tag) == <<id, tag>>

Exists(files, f) == f \in DOMAIN files

\* the possibleFiles array (the same literal in the try and in the catch)
possibleFiles_NoUS(id) == <<File(id, EN), File(id, EN_GB), File(id, EN_ORIG)>>

possibleFiles(id) ==
    <<File(id, EN), File(id, EN_US), File(id, EN_GB), File(id, EN_ORIG)>>

\* list.find((f) => existsSync(f)) || null
RECURSIVE FindExisting(_, _, _)
FindExisting(list, k, files) ==
    IF k > Len(list) THEN NoFile
    ELSE IF Exists(files, list[k]) THEN list[k]
    ELSE FindExisting(list, k + 1, files)

\* the existsSync calls find() makes: up to and including the first hit
RECURSIVE ProbesOf(_, _, _)
ProbesOf(list, k, files) ==
    IF k > Len(list) THEN <<>>
    ELSE IF Exists(files, list[k]) THEN <<list[k]>>
    ELSE <<list[k]>> \o ProbesOf(list, k + 1, files)

\* subtitleFile after the primary execSync returned normally
SelectAfterSuccess(files, id) == FindExisting(possibleFiles(id), 1, files)

\* subtitleFile in the catch of the primary execSync
SelectAfterThrow_GiveUp(files, id) == NoFile

SelectAfterThrow(files, id) == FindExisting(possibleFiles(id), 1, files)

\* language tags for which --sub-langs "en.*" may leave a .vtt file
EnFamily == {EN, EN_US, EN_GB, EN_ORIG, EN_CA}

\* the files one tool invocation may leave behind for the tags asked for:
\* any of them, with any content
Written(id, tags) ==
    UNION { [ {File(id, t) : t \in ts} -> VttFiles ] : ts \in SUBSET tags }

\* files after the tool wrote `new` (an existing file is overwritten)
Write(files, new) ==
    [f \in DOMAIN files \cup DOMAIN new |->
        IF f \in DOMAIN new THEN new[f] ELSE files[f]]

Remove(files, gone) == [f \in DOMAIN files \ gone |-> files[f]]

\* what the shell glob "${tempPath}"*.vtt expands to
Glob(files, id) == {f \in DOMAIN files : f[1] = id}

----------------------------------------------------------------------------
(* The caption listing and /^([a-z]{2}(?:-[A-Za-z]+)?)\s+.*vtt/m           *)

\* \s
Space == WS \cup {"\n"}
\* what . does not match, and what ^ follows under the m flag
LineEnd == {"\n", "\r"}

At(text, i) == IF i >= 1 /\ i <= Len(text) THEN text[i] ELSE "<eof>"

\* last index of the maximal run of characters of `set` starting at `from`
\* (from - 1 when the run is empty)
RECURSIVE RunEnd(_, _, _)
RunEnd(text, from, set) ==
    IF At(text, from) \in set THEN RunEnd(text, from + 1, set) ELSE from - 1

\* last index of capture group 1 for a match starting at i, 0 when the
\* group (and the \s that must follow it) cannot match there
TagEnd(text, i) ==
    IF ~(At(text, i) \in Lower /\ At(text, i + 1) \in Lower) THEN 0
    ELSE LET r == RunEnd(text, i + 3, Lower \cup Upper)
         IN  IF At(text, i + 2) = "-" /\ r >= i + 3
             THEN IF At(text, r + 1) \in Space THEN r ELSE 0
             ELSE IF At(text, i + 2) \in Space THEN i + 1 ELSE 0

VTT == <<"v", "t", "t">>

\* .*vtt can match from position p: "vtt" occurs before the line ends
RestHasVtt(text, p) ==
    \E q \in p..Len(text) :
        /\ LitAt(text, q, VTT)
        /\ \A k \in p..(q - 1) : text[k] \notin LineEnd

\* the whole pattern matches with ^ at i
ListPatternAt(text, i) ==
    /\ i = 1 \/ At(text, i - 1) \in LineEnd
    /\ TagEnd(text, i) # 0
    /\ LET e == TagEnd(text, i)
           w == RunEnd(text, e + 1, Space)
       IN  \E p \in (e + 2)..(w + 1) : RestHasVtt(text, p)

\* listOutput.match(...): capture group 1 of the leftmost match, or Null
autoLangMatch(text) ==
    LET hits == {i \in 1..Len(text) : ListPatternAt(text, i)}
    IN  IF hits = {} THEN Null
        ELSE LET i == CHOOSE h \in hits : \A g \in hits : h <= g
             IN  SubSeq(text, i, TagEnd(text, i))

\* "Language Formats / ar vtt, ttml / fr vtt"
ListArabicFirst ==
    Join(<< <<"L", "a", "n", "g", "u", "a", "g", "e", " ", "F", "o", "r", "m", "a", "t", "s">>,
            <<"a", "r", " ", " ", "v", "t", "t", ",", " ", "t", "t", "m", "l">>,
            <<"f", "r", " ", " ", "v", "t", "t">>, <<>> >>, <<"\n">>)
\* only a non-WebVTT format on offer
ListJsonOnly ==
    Join(<< <<"a", "r", " ", "j", "s", "o", "n", "3">>, <<>> >>, <<"\n">>)
\* a tag with a script subtag, after an [info] line
ListHans ==
    Join(<< <<"[", "i", "n", "f", "o", "]", " ", "x">>,
            <<"z", "h", "-", "H", "a", "n", "s", " ", "v", "t", "t">>, <<>> >>, <<"\n">>)
\* an English variant the primary probe does not know
ListEnCA ==
    Join(<< <<"e", "n", "-", "C", "A", " ", "v", "t", "t">>,
            <<"a", "r", " ", "v", "t", "t">>, <<>> >>, <<"\n">>)
\* a tag alone on its line, the formats on the next one
ListWrapped ==
    Join(<< <<"f", "r">>, <<" ", "v", "t", "t">>, <<>> >>, <<"\n">>)

ListOutputs == {ListArabicFirst, ListJsonOnly, ListHans, ListEnCA, ListWrapped}

----------------------------------------------------------------------------
(* getTranscript                                                           *)

\* messages of the Errors getTranscript throws to its caller
InvalidReference == "Invalid YouTube URL"
NoCaptionsAvailable ==
    "No transcript available for this video. The video may not have captions."
ExtractionFailed == "Could not fetch transcript. Please try again."

\* messages of the Errors thrown inside the outer try
NoTranscriptMsg == "No transcript available for this video"
EmptyMsg == "Transcript is empty"
\* readFileSync failing on the selected file (the path is under os.tmpdir())
ReadErrors ==
    { "ENOENT: no such file or directory, open '/tmp/yt-transcript-u1.vtt'",
      "EACCES: permission denied, open '/tmp/yt-transcript-u1.vtt'" }

NoError == "none"
NoIntent == "none"

\* error.message.includes("No transcript")
IncludesNoTranscript(message) == message = NoTranscriptMsg
\* error.message.includes("empty")
IncludesEmpty(message) == message = EmptyMsg

Thrown(message) == [kind |-> "thrown", message |-> message, value |-> Null]
Returned(text) == [kind |-> "returned", message |-> NoError, value |-> text]
Pending == [kind |-> "pending", message |-> NoError, value |-> Null]

Event(op, arg) == [op |-> op, arg |-> arg]

RECURSIVE ProbeEvents(_)
ProbeEvents(fileList) ==
    IF fileList = <<>> THEN <<>>
    ELSE <<Event("existsSync", fileList[1][2])>> \o ProbeEvents(Tail(fileList))

\* what getTranscript leaves untouched of the other components' state
NotesUnchanged ==
    UNCHANGED <<intent, notesRev, videoType, subjects, overview, notesError,
                notesResult, completions>>
PostUnchanged == UNCHANGED <<body, response>>

\* const videoId = extractVideoId(url); if (!videoId) throw ...;
\* const tempId = randomUUID();
TranscriptValidate_InsideTry(u) ==
    IF extractVideoId(u) = Null
    THEN [pc |-> "gt_catch", error |-> InvalidReference, gtResult |-> Pending]
    ELSE [pc |-> "gt_primary", error |-> NoError, gtResult |-> Pending]

TranscriptValidate(u) ==
    IF extractVideoId(u) = Null
    THEN [pc |-> "gt_return", error |-> NoError,
          gtResult |-> Thrown(InvalidReference)]
    ELSE [pc |-> "gt_primary", error |-> NoError, gtResult |-> Pending]

GT_Start ==
    /\ pc = "gt_start"
    /\ videoId' = extractVideoId(url)
    /\ LET v == TranscriptValidate(url)
       IN  /\ pc' = v.pc
           /\ error' = v.error
           /\ gtResult' = v.gtResult
           /\ IF v.pc = "gt_primary"
              THEN tempId' \in TempIds
              ELSE tempId' = tempId
    /\ UNCHANGED <<caller, url, urlShape, fs, subtitleFile, primaryThrew,
                   listOutput, sourceLang, vttContent, transcript, cleanups, log>>
    /\ NotesUnchanged /\ PostUnchanged

\* the primary execSync (--sub-langs "en.*") and the probe after it, in the
\* try or in its catch
GT_Primary ==
    /\ pc = "gt_primary"
    /\ \E threw \in BOOLEAN, new \in Written(tempId, EnFamily) :
          LET files == Write(fs, new)
              chosen == IF threw THEN SelectAfterThrow(files, tempId)
                        ELSE SelectAfterSuccess(files, tempId)
          IN  /\ fs' = files
              /\ primaryThrew' = threw
              /\ subtitleFile' = chosen
              /\ log' = log \o <<Event("download", <<"e", "n", ".", "*">>)>>
                            \o ProbeEvents(ProbesOf(possibleFiles(tempId), 1, files))
              /\ pc' = IF chosen = NoFile THEN "gt_list" ELSE "gt_read"
    /\ UNCHANGED <<caller, url, urlShape, videoId, tempId, listOutput, sourceLang,
                   vttContent, transcript, error, gtResult, cleanups>>
    /\ NotesUnchanged /\ PostUnchanged

\* if (!subtitleFile) { try { listOutput = execSync(--list-subs) ...
GT_List ==
    /\ pc = "gt_list"
    /\ log' = Append(log, Event("list", <<>>))
    /\ \/ \* the listing timed out or exited non-zero: the catch continues
          /\ listOutput' = Null
          /\ sourceLang' = Null
          /\ pc' = "gt_read"
       \/ \E out \in ListOutputs :
             /\ listOutput' = out
             /\ sourceLang' = autoLangMatch(out)
             /\ pc' = IF autoLangMatch(out) = Null THEN "gt_read" ELSE "gt_fallback"
    /\ UNCHANGED <<caller, url, urlShape, videoId, tempId, fs, subtitleFile,
                   primaryThrew, vttContent, transcript, error, gtResult, cleanups>>
    /\ NotesUnchanged /\ PostUnchanged

\* the file probed after the language-specific download
sourceFile_English(id, lang) == File(id, EN)

sourceFile(id, lang) == File(id, lang)

\* the language-specific execSync (errors ignored) and the probe after it
GT_Fallback ==
    /\ pc = "gt_fallback"
    /\ \E new \in Written(tempId, {sourceLang}) :
          LET files == Write(fs, new)
              f == sourceFile(tempId, sourceLang)
          IN  /\ fs' = files
              /\ log' = log \o <<Event("download", sourceLang),
                                 Event("existsSync", f[2])>>
              /\ subtitleFile' = IF Exists(files, f) THEN f ELSE subtitleFile
    /\ pc' = "gt_read"
    /\ UNCHANGED <<caller, url, urlShape, videoId, tempId, primaryThrew, listOutput,
                   sourceLang, vttContent, transcript, error, gtResult, cleanups>>
    /\ NotesUnchanged /\ PostUnchanged

\* if (!subtitleFile || !existsSync(subtitleFile)) throw ...;
\* vttContent = readFileSync(subtitleFile); transcript = parseVTT(vttContent)
GT_Read ==
    /\ pc = "gt_read"
    /\ IF subtitleFile = NoFile \/ ~Exists(fs, subtitleFile)
       THEN /\ error' = NoTranscriptMsg
            /\ pc' = "gt_catch"
            /\ UNCHANGED <<vttContent, transcript, log>>
       ELSE /\ log' = log \o <<Event("existsSync", subtitleFile[2]),
                               Event("readFileSync", subtitleFile[2])>>
            /\ \/ /\ vttContent' = fs[subtitleFile]
                  /\ transcript' = parseVTT(fs[subtitleFile])
                  /\ pc' = "gt_cleanup"
                  /\ UNCHANGED error
               \/ /\ error' \in ReadErrors
                  /\ pc' = "gt_catch"
                  /\ UNCHANGED <<vttContent, transcript>>
    /\ UNCHANGED <<caller, url, urlShape, videoId, tempId, fs, subtitleFile,
                   primaryThrew, listOutput, sourceLang, gtResult, cleanups>>
    /\ NotesUnchanged /\ PostUnchanged

\* the files array of the cleanup after parsing
explicitFiles(id) == <<File(id, EN), File(id, EN_ORIG), File(id, AR)>>

\* the files of list[1..k] that exist
ExistingUpTo(files, list, k) == {list[j] : j \in 1..k} \cap DOMAIN files

\* execSync(`rm -f "${tempPath}"*.vtt`): either every matching file is
\* removed, or the command fails having removed only some of them
RmOutcomes(files, id) ==
    {[files |-> Remove(files, Glob(files, id)), outcome |-> "ok"]}
    \cup {[files |-> Remove(files, gone), outcome |-> "failed"] :
            gone \in {g \in SUBSET Glob(files, id) :
                        g # Glob(files, id) \/ Glob(files, id) = {}}}

\* the unlinkSync loop stopped by an exception at list[k]
UnlinkFailures(files, list) ==
    {[files |-> Remove(files, ExistingUpTo(files, list, k - 1)),
      outcome |-> "failed"] : k \in {j \in 1..Len(list) : Exists(files, list[j])}}

\* the cleanup try block after parseVTT (unlink loop, then rm -f)
CleanupAfterParse_ExplicitOnly(files, id) ==
    UnlinkFailures(files, explicitFiles(id))
    \cup {[files |-> Remove(files, ExistingUpTo(files, explicitFiles(id), 3)),
           outcome |-> "ok"]}

CleanupAfterParse(files, id) ==
    UnlinkFailures(files, explicitFiles(id))
    \cup RmOutcomes(Remove(files, ExistingUpTo(files, explicitFiles(id), 3)), id)

\* the cleanup try block of the outer catch (rm -f only)
CleanupInCatch(files, id) == RmOutcomes(files, id)

\* !transcript || transcript.trim().length === 0
IsEmptyTranscript_Never(text) == FALSE

IsEmptyTranscript(text) == text = <<>> \/ Trim(text) = <<>>

\* the message of the Error the outer catch throws for a caught error
Classify_Generic(message) == ExtractionFailed

Classify_Raw(message) == message

Classify(message) ==
    IF IncludesNoTranscript(message) \/ IncludesEmpty(message)
    THEN NoCaptionsAvailable
    ELSE ExtractionFailed

\* the message of an exception of the cleanup commands
CleanupFailedMsg == "Command failed: rm -f"

\* what leaves a cleanup try block: its catch has an empty body, so nothing
CleanupEscapes_Rethrown(outcome) ==
    IF outcome = "failed" THEN CleanupFailedMsg ELSE NoError

CleanupEscapes(outcome) == NoError

\* cleanup after parsing, then the emptiness check, then return
GT_Cleanup ==
    /\ pc = "gt_cleanup"
    /\ \E o \in CleanupAfterParse(fs, tempId) :
          /\ fs' = o.files
          /\ cleanups' = Append(cleanups, o.outcome)
          /\ IF CleanupEscapes(o.outcome) # NoError
             THEN /\ error' = CleanupEscapes(o.outcome)
                  /\ pc' = "gt_catch"
                  /\ UNCHANGED gtResult
             ELSE IF IsEmptyTranscript(transcript)
             THEN /\ error' = EmptyMsg
                  /\ pc' = "gt_catch"
                  /\ UNCHANGED gtResult
             ELSE /\ gtResult' = Returned(transcript)
                  /\ pc' = "gt_return"
                  /\ UNCHANGED error
    /\ log' = Append(log, Event("cleanup", <<>>))
    /\ UNCHANGED <<caller, url, urlShape, videoId, tempId, subtitleFile, primaryThrew,
                   listOutput, sourceLang, vttContent, transcript>>
    /\ NotesUnchanged /\ PostUnchanged

\* the outer catch: cleanup, then rethrow under one of two messages
GT_Catch ==
    /\ pc = "gt_catch"
    /\ \E o \in CleanupInCatch(fs, tempId) :
          /\ fs' = o.files
          /\ cleanups' = Append(cleanups, o.outcome)
          /\ gtResult' = IF CleanupEscapes(o.outcome) # NoError
                         THEN Thrown(CleanupEscapes(o.outcome))
                         ELSE Thrown(Classify(error))
    /\ log' = Append(log, Event("cleanup", <<>>))
    /\ pc' = "gt_return"
    /\ UNCHANGED <<caller, url, urlShape, videoId, tempId, subtitleFile, primaryThrew,
                   listOutput, sourceLang, vttContent, transcript, error>>
    /\ NotesUnchanged /\ PostUnchanged

getTranscript ==
    \/ GT_Start
    \/ GT_Primary
    \/ GT_List
    \/ GT_Fallback
    \/ GT_Read
    \/ GT_Cleanup
    \/ GT_Catch

----------------------------------------------------------------------------
(* generateNotes                                                           *)

GenerationFailed == "Failed to generate notes"

\* the revisions of the notes module under src/: lib/notes.ts, and the two
\* kept in route.ts (the one with the skim intent, the one with videoType)
Revisions == {"lib", "route_skim", "route_overview"}

\* the Intent type of each revision
IntentsOf ==
    [lib            |-> {"learn", "action", "overview"},
     route_skim     |-> {"learn", "reference", "action", "skim"},
     route_overview |-> {"learn", "reference", "action", "overview"}]

\* the keys of intentPrompts
PromptIntents ==
    [lib            |-> {"learn", "action"},
     route_skim     |-> {"learn", "reference", "action", "skim"},
     route_overview |-> {"learn", "reference", "action"}]

\* one part of a message's content: a prompt constant, or text passed in
PromptPart(name) == [kind |-> "prompt", name |-> name, text |-> <<>>]
TextPart(name, text) == [kind |-> "text", name |-> name, text |-> text]

\* intentPrompts[intent]: undefined for a key the table does not have
SystemPrompt(i) ==
    IF i \in PromptIntents[notesRev] THEN PromptPart(i) ELSE PromptPart("undefined")

\* the content of the user message of the single-step call
UserContent ==
    IF notesRev = "route_skim"
    THEN <<PromptPart("Here is the video transcript:"),
           TextPart("newlines", <<"\n", "\n">>),
           TextPart("transcript", transcript)>>
    ELSE <<TextPart("transcript", transcript)>>

\* OVERVIEW_PROMPT, OVERVIEW_SCOPE_PROMPT and OVERVIEW_REWRITE_PROMPT
OverviewPrompt(step) ==
    IF notesRev = "lib"
    THEN (IF step = "scope" THEN "OVERVIEW_SCOPE_PROMPT"
          ELSE "OVERVIEW_REWRITE_PROMPT")
    ELSE IF videoType = "educational"
    THEN (IF step = "fast" THEN "EDUCATIONAL_OVERVIEW_PROMPT"
          ELSE IF step = "scope" THEN "EDUCATIONAL_OVERVIEW_SCOPE_PROMPT"
          ELSE "EDUCATIONAL_OVERVIEW_REWRITE_PROMPT")
    ELSE (IF step = "fast" THEN "ENTERTAINMENT_OVERVIEW_PROMPT"
          ELSE IF step = "scope" THEN "ENTERTAINMENT_OVERVIEW_SCOPE_PROMPT"
          ELSE "ENTERTAINMENT_OVERVIEW_REWRITE_PROMPT")

\* a chat.completions.create request: system content, user content (empty
\* when there is no user message), temperature in tenths, max_tokens
Request(system, user, temperature, maxTokens) ==
    [system |-> system, user |-> user, temperature |-> temperature,
     max_tokens |-> maxTokens]

\* what response.choices[0]?.message?.content may be: absent, "", or text
CompletionTexts == { <<"T", "h", "e", " ", "v", "i", "d", "e", "o">>,
                     <<"-", " ", "A", "\n", "-", " ", "B">>,
                     <<"T", "h", "e", " ", "K", "e", "y", "s", ".">>,
                     <<"m", "o", "n", "k", "e", "y", "s">> }
CompletionContents == {Null, <<>>} \cup CompletionTexts

\* the create call rejecting instead of resolving
Threw == <<"<threw>">>
CompletionOutcomes == CompletionContents \cup {Threw}

\* one issued call: the request, and how the service answered it
Call(request, outcome) == [request |-> request, content |-> outcome]

\* !content
Absent_NullOnly(content) == content = Null

Absent_Never(content) == FALSE

Absent(content) == content = Null \/ content = <<>>

\* the alternatives of forbiddenWordsRegex, written out
ForbiddenWords ==
    { <<"i", "m", "p", "o", "r", "t", "a", "n", "c", "e">>,
      <<"i", "m", "p", "o", "r", "t", "a", "n", "t">>,
      <<"v", "a", "l", "u", "e">>,
      <<"v", "a", "l", "u", "a", "b", "l", "e">>,
      <<"s", "u", "c", "c", "e", "s", "s">>,
      <<"s", "u", "c", "c", "e", "s", "s", "f", "u", "l">>,
      <<"b", "e", "n", "e", "f", "i", "t", "s">>,
      <<"b", "e", "n", "e", "f", "i", "t", "i", "a", "l">>,
      <<"a", "d", "v", "i", "c", "e">>,
      <<"e", "m", "p", "h", "a", "s", "i", "z", "e">>,
      <<"e", "m", "p", "h", "a", "s", "i", "z", "e", "s">>,
      <<"e", "m", "p", "h", "a", "s", "i", "z", "e", "d">>,
      <<"h", "i", "g", "h", "l", "i", "g", "h", "t">>,
      <<"h", "i", "g", "h", "l", "i", "g", "h", "t", "s">>,
      <<"h", "i", "g", "h", "l", "i", "g", "h", "t", "d">>,
      <<"k", "e", "y">>,
      <<"k", "e", "y", "s">>,
      <<"c", "r", "i", "t", "i", "c", "a", "l">>,
      <<"c", "r", "i", "t", "i", "c", "a", "l", "l", "y">>,
      <<"s", "i", "g", "n", "i", "f", "i", "c", "a", "n", "c", "e">>,
      <<"s", "i", "g", "n", "i", "f", "i", "c", "a", "n", "t">>,
      <<"e", "s", "s", "e", "n", "t", "i", "a", "l">>,
      <<"c", "r", "u", "c", "i", "a", "l">>,
      <<"o", "v", "e", "r", "c", "o", "m", "e">>,
      <<"o", "v", "e", "r", "c", "o", "m", "i", "n", "g">>,
      <<"m", "a", "t", "t", "e", "r">>,
      <<"m", "a", "t", "t", "e", "r", "s">>,
      <<"e", "m", "p", "o", "w", "e", "r">>,
      <<"e", "m", "p", "o", "w", "e", "r", "s">>,
      <<"e", "m", "p", "o", "w", "e", "r", "i", "n", "g">>,
      <<"e", "m", "p", "o", "w", "e", "r", "m", "e", "n", "t">> }

\* the /i flag: a character compared without regard to case
ToLower(c) ==
    LET Alphabet ==
            <<"a", "b", "c", "d", "e", "f", "g", "h", "i", "j", "k", "l", "m",
              "n", "o", "p", "q", "r", "s", "t", "u", "v", "w", "x", "y", "z">>
        Capitals ==
            <<"A", "B", "C", "D", "E", "F", "G", "H", "I", "J", "K", "L", "M",
              "N", "O", "P", "Q", "R", "S", "T", "U", "V", "W", "X", "Y", "Z">>
    IN  IF \E i \in 1..26 : Capitals[i] = c
        THEN Alphabet[CHOOSE i \in 1..26 : Capitals[i] = c]
        ELSE c

\* \w, the characters \b tells apart from the rest
WordChar == Lower \cup Upper \cup Digit \cup {"_"}

\* forbiddenWordsRegex.test(text): an alternative, in any case, with a word
\* boundary on both sides
ForbiddenTest(text) ==
    \E w \in ForbiddenWords : \E i \in 1..(Len(text) - Len(w) + 1) :
        /\ \A k \in 1..Len(w) : ToLower(text[i + k - 1]) = w[k]
        /\ i = 1 \/ text[i - 1] \notin WordChar
        /\ i + Len(w) > Len(text) \/ text[i + Len(w)] \notin WordChar

\* !overview || forbiddenWordsRegex.test(overview)
NeedsFallback_EmptyOnly(content) == Absent(content)

NeedsFallback_Always(content) == TRUE

NeedsFallback(content) == Absent(content) \/ ForbiddenTest(content)

TranscriptUnchanged ==
    UNCHANGED <<url, urlShape, videoId, tempId, fs, subtitleFile, primaryThrew,
                listOutput, sourceLang, vttContent, transcript, error, gtResult,
                cleanups, log>>

\* the catch of generateNotes: whatever was thrown becomes GenerationFailed
GN_Throw_Retry(message) ==
    /\ notesError' = message
    /\ notesResult' = notesResult
    /\ pc' = pc

GN_Throw_Raw(message) ==
    /\ notesError' = message
    /\ notesResult' = Thrown(message)
    /\ pc' = "gn_return"

GN_Throw(message) ==
    /\ notesError' = message
    /\ notesResult' = Thrown(GenerationFailed)
    /\ pc' = "gn_return"

\* the message getOpenAIClient throws when process.env.OPENAI_API_KEY is unset
NoApiKeyMsg == "OPENAI_API_KEY environment variable is not configured"

\* where the branch on the intent leads in each revision
FirstStep_SkipFast ==
    IF intent = "overview" /\ notesRev \in {"route_overview", "lib"} THEN "gn_scope"
    ELSE "gn_single"

FirstStep_OverviewForAll ==
    IF notesRev = "route_overview" THEN "gn_fast"
    ELSE IF notesRev = "lib" THEN "gn_scope"
    ELSE "gn_single"

FirstStep ==
    IF intent = "overview" /\ notesRev = "route_overview" THEN "gn_fast"
    ELSE IF intent = "overview" /\ notesRev = "lib" THEN "gn_scope"
    ELSE "gn_single"

\* getOpenAIClient(), then the branch on the intent
GN_Start ==
    /\ pc = "gn_start"
    /\ \/ \* process.env.OPENAI_API_KEY is not set
          /\ GN_Throw(NoApiKeyMsg)
       \/ /\ pc' = FirstStep
          /\ UNCHANGED <<notesError, notesResult>>
    /\ UNCHANGED <<caller, intent, notesRev, videoType, subjects, overview,
                   completions>>
    /\ TranscriptUnchanged /\ PostUnchanged

\* Single-step attempt (fast), and the test that sends it to the fallback
GN_Fast ==
    /\ pc = "gn_fast"
    /\ \E outcome \in CompletionOutcomes :
          /\ completions' = Append(completions,
                Call(Request(<<PromptPart(OverviewPrompt("fast"))>>,
                             <<TextPart("transcript", transcript)>>, 4, 150),
                     outcome))
          /\ IF outcome = Threw
             THEN /\ GN_Throw("completion request failed")
                  /\ UNCHANGED overview
             ELSE /\ overview' = outcome
                  /\ IF NeedsFallback(outcome)
                     THEN /\ pc' = "gn_scope"
                          /\ UNCHANGED <<notesError, notesResult>>
                     ELSE /\ notesResult' = Returned(outcome)
                          /\ pc' = "gn_return"
                          /\ UNCHANGED notesError
    /\ UNCHANGED <<caller, intent, notesRev, videoType, subjects>>
    /\ TranscriptUnchanged /\ PostUnchanged

\* Step 1: extract subjects
GN_Scope ==
    /\ pc = "gn_scope"
    /\ \E outcome \in CompletionOutcomes :
          /\ completions' = Append(completions,
                Call(Request(<<PromptPart(OverviewPrompt("scope"))>>,
                             <<TextPart("transcript", transcript)>>, 0, 200),
                     outcome))
          /\ IF outcome = Threw
             THEN /\ GN_Throw("completion request failed")
                  /\ UNCHANGED subjects
             ELSE /\ subjects' = outcome
                  /\ IF Absent(outcome)
                     THEN GN_Throw("Failed to extract subjects")
                     ELSE /\ pc' = "gn_rewrite"
                          /\ UNCHANGED <<notesError, notesResult>>
    /\ UNCHANGED <<caller, intent, notesRev, videoType, overview>>
    /\ TranscriptUnchanged /\ PostUnchanged

\* the messages of the rewrite call: one system message, no user message
RewriteRequest_WithTranscript ==
    Request(<<PromptPart(OverviewPrompt("rewrite")),
              TextPart("newline", <<"\n">>),
              TextPart("subjects", subjects)>>,
            <<TextPart("transcript", transcript)>>, 4, 150)

RewriteRequest ==
    Request(<<PromptPart(OverviewPrompt("rewrite")),
              TextPart("newline", <<"\n">>),
              TextPart("subjects", subjects)>>, <<>>, 4, 150)

\* Step 2: rewrite as overview
GN_Rewrite ==
    /\ pc = "gn_rewrite"
    /\ \E outcome \in CompletionOutcomes :
          /\ completions' = Append(completions, Call(RewriteRequest, outcome))
          /\ IF outcome = Threw
             THEN /\ GN_Throw("completion request failed")
                  /\ UNCHANGED overview
             ELSE /\ overview' = outcome
                  /\ IF Absent(outcome)
                     THEN GN_Throw("Failed to generate overview")
                     ELSE /\ notesResult' = Returned(outcome)
                          /\ pc' = "gn_return"
                          /\ UNCHANGED notesError
    /\ UNCHANGED <<caller, intent, notesRev, videoType, subjects>>
    /\ TranscriptUnchanged /\ PostUnchanged

\* DEFAULT: single-step intents
GN_Single ==
    /\ pc = "gn_single"
    /\ \E outcome \in CompletionOutcomes :
          /\ completions' = Append(completions,
                Call(Request(<<SystemPrompt(intent)>>, UserContent, 7, 2000),
                     outcome))
          /\ IF outcome = Threw
             THEN GN_Throw("completion request failed")
             ELSE IF Absent(outcome)
             THEN GN_Throw(IF notesRev = "route_skim"
                           THEN "No content in response"
                           ELSE "No content returned from model")
             ELSE /\ notesResult' = Returned(outcome)
                  /\ pc' = "gn_return"
                  /\ UNCHANGED notesError
    /\ UNCHANGED <<caller, intent, notesRev, videoType, subjects, overview>>
    /\ TranscriptUnchanged /\ PostUnchanged

generateNotes ==
    \/ GN_Start
    \/ GN_Fast
    \/ GN_Scope
    \/ GN_Rewrite
    \/ GN_Single

----------------------------------------------------------------------------
(* POST /api/generate-notes                                                *)

validIntents == {"learn", "reference", "action", "skim"}

\* JSON values of the request body's fields
Undefined == [t |-> "undefined", s |-> Null, w |-> NoIntent]
Number(n) == [t |-> "number", s |-> <<n>>, w |-> NoIntent]
\* a string the code inspects character by character (the url)
Text(chars) == [t |-> "string", s |-> chars, w |-> NoIntent]
\* a string the code compares as a whole (the intent)
Word(w) == [t |-> "string", s |-> Null, w |-> w]

\* !v
Falsy(v) ==
    \/ v.t = "undefined"
    \/ v.t = "number" /\ v.s = <<"0">>
    \/ v.t = "string" /\ v.s \in {Null, <<>>} /\ v.w \in {NoIntent, ""}

\* !url || typeof url !== "string"
UrlRejected(v) == Falsy(v) \/ v.t # "string"

\* !intent || !validIntents.includes(intent)
IntentRejected(v) == Falsy(v) \/ v.t # "string" \/ v.w \notin validIntents

Json(status, text) == [status |-> status, json |-> text]

\* the catch of POST: the status for an Error's message
StatusFor(message) ==
    IF message = "Invalid YouTube URL" THEN 400
    ELSE IF \/ message = "Could not fetch transcript. The video may not have captions enabled."
            \/ message = "No transcript available for this video"
         THEN 422
    ELSE 500

\* request.json(), the two validations, then the call of getTranscript
P_Start ==
    /\ pc = "post_start"
    /\ IF ~body.ok
       THEN /\ response' = Json(StatusFor("Unexpected end of JSON input"),
                                "Unexpected end of JSON input")
            /\ pc' = "post_done"
            /\ UNCHANGED url
       ELSE IF UrlRejected(body.url)
       THEN /\ response' = Json(400, "YouTube URL is required")
            /\ pc' = "post_done"
            /\ UNCHANGED url
       ELSE IF IntentRejected(body.intent)
       THEN /\ response' =
                  Json(400, "Valid intent is required (learn, reference, action, skim)")
            /\ pc' = "post_done"
            /\ UNCHANGED url
       ELSE /\ url' = body.url.s
            /\ pc' = "gt_start"
            /\ UNCHANGED response
    /\ UNCHANGED <<caller, body, urlShape, videoId, tempId, fs, subtitleFile,
                   primaryThrew, listOutput, sourceLang, vttContent, transcript,
                   error, gtResult, cleanups, log>>
    /\ NotesUnchanged

\* where `await getTranscript(url)` continues: the next statement when it
\* returned, the catch when it threw
AfterTranscript_Ignore(result) == "gn_start"

AfterTranscript(result) ==
    IF result.kind = "returned" THEN "gn_start" ELSE "post_catch"

\* const transcript = await getTranscript(url): on return go on to
\* generateNotes(transcript, intent), on throw answer from the catch
P_AfterTranscript ==
    /\ pc = "gt_return"
    /\ caller = "POST"
    /\ IF AfterTranscript(gtResult) = "gn_start"
       THEN /\ intent' = body.intent.w
            /\ transcript' = gtResult.value
            /\ pc' = "gn_start"
            /\ UNCHANGED response
       ELSE /\ response' = Json(StatusFor(gtResult.message), gtResult.message)
            /\ pc' = "post_done"
            /\ UNCHANGED <<intent, transcript>>
    /\ UNCHANGED <<caller, body, url, urlShape, videoId, tempId, fs, subtitleFile,
                   primaryThrew, listOutput, sourceLang, vttContent, error, gtResult,
                   cleanups, log, notesRev, videoType, subjects, overview, notesError,
                   notesResult, completions>>

\* const notes = await generateNotes(...): NextResponse.json({ notes }) on
\* return, the catch on throw
P_AfterNotes ==
    /\ pc = "gn_return"
    /\ caller = "POST"
    /\ response' = IF notesResult.kind = "returned"
                   THEN Json(200, "notes")
                   ELSE Json(StatusFor(notesResult.message), notesResult.message)
    /\ pc' = "post_done"
    /\ UNCHANGED <<caller, body>>
    /\ TranscriptUnchanged /\ NotesUnchanged

\* validIntents lets no "overview" through, so of generateNotes only the
\* single-step path runs under POST
POST ==
    \/ P_Start
    \/ P_AfterTranscript
    \/ P_AfterNotes
    \/ getTranscript
    \/ GN_Start
    \/ GN_Single

----------------------------------------------------------------------------
(* Specifications                                                          *)

\* getTranscript not yet entered: no locals (but for transcript, which is
\* also generateNotes' argument), empty temp directory
TranscriptIdle ==
    /\ videoId = Null
    /\ tempId = NoId
    /\ fs = <<>>
    /\ subtitleFile = NoFile
    /\ primaryThrew = FALSE
    /\ listOutput = Null
    /\ sourceLang = Null
    /\ vttContent = Null
    /\ error = NoError
    /\ gtResult = Pending
    /\ cleanups = <<>>
    /\ log = <<>>

\* generateNotes not yet entered
NoNotesCall == notesRev = "none" /\ videoType = "none"

NotesIdle ==
    /\ subjects = Null
    /\ overview = Null
    /\ notesError = NoError
    /\ notesResult = Pending
    /\ completions = <<>>

NoBody == [ok |-> FALSE, url |-> Undefined, intent |-> Undefined]
NoResponse == Json(0, "none")

\* getTranscript(url) called directly, for each url of TranscriptShapes
TranscriptRuns == {<<>>} \cup
    {SubSeq(s, 1, n) :
        s \in {<<"d", "Q", "w", "4", "w", "9", "W", "g", "X", "c", "Q", "Z", "k", "7">>,
               <<"d", "Q", "w", "4", "w", "!", "W", "g", "X", "c", "Q", "Z", "k", "7">>},
        n \in (IdLen - IdSlack)..IdLen}

TranscriptShapes ==
    {sh \in UrlShapes : sh.pre = <<>> /\ sh.suf = <<>> /\ sh.run \in TranscriptRuns}

InitTranscript ==
    /\ caller = "getTranscript"
    /\ pc = "gt_start"
    /\ urlShape \in TranscriptShapes
    /\ url = UrlOf(urlShape)
    /\ TranscriptIdle
    /\ transcript = Null
    /\ intent = NoIntent
    /\ NoNotesCall
    /\ NotesIdle
    /\ body = NoBody
    /\ response = NoResponse

SpecTranscript == InitTranscript /\ [][getTranscript]_vars

\* randomUUID() in the other getTranscript calls in flight: a value drawn
\* afresh in each call, so none that the call followed here draws
OtherIds_Same == TempIds

OtherIds == {"u2"}

\* the caption tags the other calls' downloads leave files for
OtherTags == {EN}

\* another call's execSync of yt-dlp with -o "${tempPath}", tempPath being
\* its own
Other_Download ==
    /\ \E id \in OtherIds :
          \E new \in Written(id, OtherTags) : fs' = Write(fs, new)
    /\ UNCHANGED <<caller, pc, url, urlShape, videoId, tempId, subtitleFile,
                   primaryThrew, listOutput, sourceLang, vttContent, transcript,
                   error, gtResult, cleanups, log>>
    /\ NotesUnchanged /\ PostUnchanged

\* another call's cleanup, after its parseVTT or in its catch
Other_Cleanup ==
    /\ \E id \in OtherIds :
          \E o \in CleanupAfterParse(fs, id) \cup CleanupInCatch(fs, id) :
              fs' = o.files
    /\ UNCHANGED <<caller, pc, url, urlShape, videoId, tempId, subtitleFile,
                   primaryThrew, listOutput, sourceLang, vttContent, transcript,
                   error, gtResult, cleanups, log>>
    /\ NotesUnchanged /\ PostUnchanged

\* getTranscript(url) while other calls of it run against the same temp
\* directory: their steps fall anywhere between the steps of this call
ConcurrentShapes ==
    {sh \in TranscriptShapes : sh.marker = SHORT /\ Len(sh.run) = IdLen}

InitConcurrent ==
    /\ InitTranscript
    /\ urlShape \in ConcurrentShapes

SpecConcurrent ==
    InitConcurrent /\ [][getTranscript \/ Other_Download \/ Other_Cleanup]_vars

\* extractVideoId(url) on its own, for each url of UrlShapes
EV_Apply ==
    /\ pc = "ev_start"
    /\ videoId' = extractVideoId(url)
    /\ pc' = "ev_done"
    /\ UNCHANGED <<caller, url, urlShape, tempId, fs, subtitleFile, primaryThrew,
                   listOutput, sourceLang, vttContent, transcript, error, gtResult,
                   cleanups, log>>
    /\ NotesUnchanged /\ PostUnchanged

InitUrl ==
    /\ caller = "extractVideoId"
    /\ pc = "ev_start"
    /\ urlShape \in UrlShapes
    /\ url = UrlOf(urlShape)
    /\ TranscriptIdle
    /\ transcript = Null
    /\ intent = NoIntent
    /\ NoNotesCall
    /\ NotesIdle
    /\ body = NoBody
    /\ response = NoResponse

SpecUrl == InitUrl /\ [][EV_Apply]_vars

\* parseVTT(content) on its own, for each content of ParseContents, and
\* parseVTT applied once more to its own output
PV_Parse ==
    /\ pc = "pv_start"
    /\ transcript' = parseVTT(vttContent)
    /\ pc' = "pv_done"
    /\ UNCHANGED <<caller, url, urlShape, videoId, tempId, fs, subtitleFile,
                   primaryThrew, listOutput, sourceLang, vttContent, error, gtResult,
                   cleanups, log>>
    /\ NotesUnchanged /\ PostUnchanged

PV_Reparse ==
    /\ pc = "pv_done"
    /\ vttContent' = transcript
    /\ transcript' = parseVTT(transcript)
    /\ pc' = "pv_twice"
    /\ UNCHANGED <<caller, url, urlShape, videoId, tempId, fs, subtitleFile,
                   primaryThrew, listOutput, sourceLang, error, gtResult,
                   cleanups, log>>
    /\ NotesUnchanged /\ PostUnchanged

InitParse ==
    /\ caller = "parseVTT"
    /\ pc = "pv_start"
    /\ url = Null
    /\ urlShape = NoShape
    /\ vttContent \in ParseContents
    /\ transcript = Null
    /\ videoId = Null
    /\ tempId = NoId
    /\ fs = <<>>
    /\ subtitleFile = NoFile
    /\ primaryThrew = FALSE
    /\ listOutput = Null
    /\ sourceLang = Null
    /\ error = NoError
    /\ gtResult = Pending
    /\ cleanups = <<>>
    /\ log = <<>>
    /\ intent = NoIntent
    /\ NoNotesCall
    /\ NotesIdle
    /\ body = NoBody
    /\ response = NoResponse

SpecParse == InitParse /\ [][PV_Parse \/ PV_Reparse]_vars

\* the request bodies POST is exercised with
PostShapes ==
    {sh \in UrlShapes :
        /\ sh.pre = <<"h", "t", "t", "p", "s", ":", "/", "/">>
        /\ sh.suf = <<>>
        /\ sh.marker \in {SHORT, <<"n", "o", "t", " ", "a", " ", "u", "r", "l">>}
        /\ sh.run \in TranscriptRuns}

PostIntents ==
    {Undefined, Word(""), Word("bogus"), Word("overview"), Number("7")}
    \cup {Word(i) : i \in validIntents}

Init ==
    /\ caller = "POST"
    /\ pc = "post_start"
    /\ \/ /\ urlShape \in PostShapes
          /\ body \in [ok : {TRUE}, url : {Text(UrlOf(urlShape))}, intent : PostIntents]
       \/ /\ urlShape = NoShape
          /\ body \in [ok : {TRUE}, url : {Undefined, Number("42"), Text(<<>>)},
                       intent : PostIntents]
       \/ /\ urlShape = NoShape
          /\ body = [ok |-> FALSE, url |-> Undefined, intent |-> Undefined]
    /\ url = Null
    /\ TranscriptIdle
    /\ transcript = Null
    /\ intent = NoIntent
    /\ notesRev = "lib"
    /\ videoType = "none"
    /\ NotesIdle
    /\ response = NoResponse

Spec == Init /\ [][POST]_vars

\* generateNotes(transcript, intent, videoType) called directly: each
\* revision with the intents of its Intent type, lib/notes.ts also with the
\* intents the handler lets through to it
NotesCalls ==
    {c \in [rev : Revisions, intent : {"learn", "reference", "action", "skim", "overview"},
            videoType : {"educational", "entertainment", "none"}] :
        /\ c.intent \in IntentsOf[c.rev] \cup (IF c.rev = "lib" THEN validIntents ELSE {})
        /\ (c.videoType # "none") = (c.rev = "route_overview")}

InitNotes ==
    /\ caller = "generateNotes"
    /\ pc = "gn_start"
    /\ url = Null
    /\ urlShape = NoShape
    /\ TranscriptIdle
    /\ transcript \in {parseVTT(VttRolling), <<"h", "i">>}
    /\ \E c \in NotesCalls :
          /\ notesRev = c.rev
          /\ intent = c.intent
          /\ videoType = c.videoType
    /\ NotesIdle
    /\ body = NoBody
    /\ response = NoResponse

SpecNotes == InitNotes /\ [][generateNotes]_vars

\* the same, with every awaited call settling: each step of generateNotes
\* that can be taken is taken
SpecNotesLive == SpecNotes /\ WF_vars(generateNotes)

----------------------------------------------------------------------------
(* Properties of getTranscript                                             *)

\* the url was put together from a recognized marker followed by at least
\* IdLen identifier characters
RecognizedShape(sh) ==
    /\ sh.marker \in ShapeMarkers
    /\ Len(sh.run) >= IdLen
    /\ \A k \in 1..IdLen : sh.run[k] \in IdChars

HasEvent(op) == \E i \in 1..Len(log) : log[i].op = op

\* the preference order of the English variants
EnglishOrder == <<EN, EN_US, EN_GB, EN_ORIG>>

\* the first variant of EnglishOrder that has a file, NoFile if none has
FirstEnglish ==
    IF \E k \in 1..4 : Exists(fs, File(tempId, EnglishOrder[k]))
    THEN File(tempId,
              EnglishOrder[CHOOSE k \in 1..4 :
                  /\ Exists(fs, File(tempId, EnglishOrder[k]))
                  /\ \A j \in 1..(k - 1) : ~Exists(fs, File(tempId, EnglishOrder[j]))])
    ELSE NoFile

\* the primary download and its probe are done, nothing else has happened
AfterPrimary == pc \in {"gt_list", "gt_read"} /\ ~HasEvent("list")

\* C1: a url that matches none of the three recognized shapes makes
\* getTranscript throw "Invalid YouTube URL" (InvalidReference), never one of
\* the other two kinds, and before anything external is invoked.
C1_UnrecognizedUrlIsInvalidReference ==
    (pc # "gt_start" /\ ~RecognizedShape(urlShape)) =>
        /\ pc = "gt_return"
        /\ gtResult = Thrown(InvalidReference)
        /\ log = <<>>

\* a recognized marker followed by one identifier character too few
C1_Witness ==
    /\ pc = "gt_return"
    /\ urlShape.marker \in ShapeMarkers
    /\ Len(urlShape.run) = IdLen - 1
    /\ gtResult = Thrown(InvalidReference)

\* C4: after the primary English download the selected file is the first
\* existing one in the order en, en-US, en-GB, en-orig; a later variant is
\* selected only if no earlier one exists.
C4_FirstExistingEnglishVariant ==
    AfterPrimary =>
        /\ subtitleFile = FirstEnglish
        /\ \A k \in 1..4 :
              subtitleFile = File(tempId, EnglishOrder[k]) =>
                  \A j \in 1..(k - 1) : ~Exists(fs, File(tempId, EnglishOrder[j]))

\* en-GB selected although en-orig exists too
C4_Witness ==
    /\ AfterPrimary
    /\ subtitleFile = File(tempId, EN_GB)
    /\ Exists(fs, File(tempId, EN_ORIG))

\* C5: when the primary download timed out or exited non-zero and an English
\* variant file exists, that file is selected in the same order, and the call
\* returns its transcript whenever the file is read and has text.
C5_FailedDownloadStillProbes ==
    primaryThrew =>
        /\ AfterPrimary => subtitleFile = FirstEnglish
        /\ (pc = "gt_return" /\ vttContent # Null /\ parseVTT(vttContent) # <<>>) =>
              gtResult = Returned(parseVTT(vttContent))

C5_Witness ==
    /\ pc = "gt_return"
    /\ primaryThrew
    /\ ~HasEvent("list")
    /\ gtResult.kind = "returned"

\* the tag a reader takes as the first one each listing offers in WebVTT form
FirstVttTag(out) ==
    IF out = ListArabicFirst THEN AR
    ELSE IF out = ListHans THEN <<"z", "h", "-", "H", "a", "n", "s">>
    ELSE IF out = ListEnCA THEN EN_CA
    ELSE IF out = ListWrapped THEN <<"f", "r">>
    ELSE Null

\* C6: the listing and the language-specific download are issued only when
\* no English variant file was found; the download is for the first tag
\* matched in the listing, and only that tag's file is probed and selected.
C6_FallbackOnlyWithoutEnglish ==
    /\ (pc = "gt_list" \/ HasEvent("list")) =>
          /\ Len(log) >= 5
          /\ log[1] = Event("download", <<"e", "n", ".", "*">>)
          /\ \A k \in 1..4 : log[k + 1] = Event("existsSync", EnglishOrder[k])
          /\ pc = "gt_list" => FirstEnglish = NoFile
          /\ Len(log) > 5 => log[6] = Event("list", <<>>)
    /\ \A i \in 2..Len(log) :
          log[i].op = "download" => (i = 7 /\ log[6].op = "list")
    /\ HasEvent("list") =>
          \A i \in 7..Len(log) :
              log[i].op \in {"download", "existsSync", "readFileSync"} =>
                  /\ listOutput # Null
                  /\ log[i].arg = FirstVttTag(listOutput)
                  /\ (log[i].op = "download") <=> (i = 7)
    /\ (pc = "gt_read" /\ HasEvent("list")) =>
          subtitleFile =
             (IF listOutput # Null /\ FirstVttTag(listOutput) # Null
                 /\ Exists(fs, File(tempId, FirstVttTag(listOutput)))
              THEN File(tempId, FirstVttTag(listOutput))
              ELSE NoFile)

C6_Witness ==
    /\ pc = "gt_read"
    /\ listOutput = ListArabicFirst
    /\ subtitleFile = File(tempId, AR)
    /\ Len(log) = 8

\* C7: for a valid url, when neither an English variant file nor the file of
\* the fallback language exists after the download attempts, getTranscript
\* throws NoCaptionsAvailable.
NoCaptionFile ==
    /\ FirstEnglish = NoFile
    /\ sourceLang # Null => ~Exists(fs, File(tempId, sourceLang))

C7_NoFileIsNoCaptionsAvailable ==
    /\ (pc = "gt_read" /\ NoCaptionFile) => subtitleFile = NoFile
    /\ (pc = "gt_catch" /\ cleanups = <<>> /\ NoCaptionFile) => error = NoTranscriptMsg
    /\ (pc = "gt_return" /\ RecognizedShape(urlShape) /\ error = NoTranscriptMsg) =>
          gtResult = Thrown(NoCaptionsAvailable)

\* the fallback language was tried and left no file
C7_Witness ==
    /\ pc = "gt_return"
    /\ sourceLang # Null
    /\ subtitleFile = NoFile
    /\ gtResult = Thrown(NoCaptionsAvailable)

\* C8: a selected file made only of header, metadata, timing and cue-index
\* lines parses to empty text and the call throws NoCaptionsAvailable; no
\* call returns an empty or whitespace-only transcript.
C8_EmptyTranscriptIsNoCaptionsAvailable ==
    /\ (pc \in {"gt_cleanup", "gt_catch", "gt_return"} /\ vttContent = VttNoText) =>
          transcript = <<>>
    /\ (pc = "gt_return" /\ vttContent = VttNoText) =>
          gtResult = Thrown(NoCaptionsAvailable)
    /\ gtResult.kind = "returned" =>
          /\ gtResult.value # <<>>
          /\ \E i \in 1..Len(gtResult.value) : gtResult.value[i] \notin Space

C8_Witness ==
    /\ pc = "gt_return"
    /\ vttContent = VttNoText
    /\ gtResult = Thrown(NoCaptionsAvailable)

\* C9: a failing call throws exactly one of the three messages:
\* InvalidReference for an unrecognized url, NoCaptionsAvailable when no file
\* was selected or the text is empty, ExtractionFailed for any other failure
\* (the read of the selected file failing); nothing else reaches the caller.
C9_ThreeKindsOnly ==
    (pc = "gt_return" /\ gtResult.kind = "thrown") =>
        /\ gtResult.message \in {InvalidReference, NoCaptionsAvailable, ExtractionFailed}
        /\ gtResult.message = InvalidReference <=> ~RecognizedShape(urlShape)
        /\ gtResult.message = NoCaptionsAvailable <=>
              /\ RecognizedShape(urlShape)
              /\ subtitleFile = NoFile \/ (vttContent # Null /\ parseVTT(vttContent) = <<>>)
        /\ gtResult.message = ExtractionFailed <=>
              /\ subtitleFile # NoFile
              /\ vttContent = Null
              /\ error \in ReadErrors

C9_Witness ==
    /\ pc = "gt_return"
    /\ error \in ReadErrors
    /\ gtResult = Thrown(ExtractionFailed)

\* C10: once the temp prefix exists, every way out of getTranscript has
\* attempted cleanup first; and if an attempt did not fail, no .vtt file
\* with the call's prefix remains.
C10_CleanupOnEveryPath ==
    (pc = "gt_return" /\ tempId # NoId) =>
        /\ Len(cleanups) >= 1
        /\ HasEvent("cleanup")
        /\ (\E i \in 1..Len(cleanups) : cleanups[i] = "ok") => Glob(fs, tempId) = {}

\* a successful call whose file only the rm -f removes
C10_Witness ==
    /\ pc = "gt_return"
    /\ gtResult.kind = "returned"
    /\ subtitleFile = File(tempId, EN_US)
    /\ cleanups = <<"ok">>
    /\ Glob(fs, tempId) = {}

----------------------------------------------------------------------------
(* Properties of extractVideoId                                            *)

\* C2: for an 11-character identifier, the watch?v=, youtu.be/ and /embed/
\* shapes all resolve to that identifier, and a recognized url resolves to
\* exactly one identifier of IdLen characters.
C2_SameIdForAllShapes ==
    (pc = "ev_done" /\ RecognizedShape(urlShape)) =>
        /\ videoId = SubSeq(urlShape.run, 1, IdLen)
        /\ Len(videoId) = IdLen

\* a short link with a scheme in front and a query part behind
C2_Witness ==
    /\ pc = "ev_done"
    /\ urlShape.marker = SHORT
    /\ urlShape.pre # <<>>
    /\ urlShape.suf # <<>>
    /\ Len(urlShape.run) = IdLen
    /\ videoId = urlShape.run

----------------------------------------------------------------------------
(* Properties of POST                                                      *)

InNotes == pc \in {"gn_start", "gn_scope", "gn_rewrite", "gn_single", "gn_return"}

\* C3: when getTranscript throws (for a malformed url: InvalidReference), the
\* request issues no completion call; generateNotes runs and completion calls
\* are issued only after getTranscript has returned a transcript.
C3_NoCompletionAfterFailedExtraction ==
    /\ gtResult.kind = "thrown" =>
          /\ completions = <<>>
          /\ ~InNotes
          /\ notesResult = Pending
    /\ (InNotes \/ completions # <<>> \/ notesResult # Pending) =>
          /\ gtResult.kind = "returned"
          /\ transcript = gtResult.value

\* a malformed url answered from the catch, no completion call made
C3_Witness ==
    /\ pc = "post_done"
    /\ gtResult = Thrown(InvalidReference)
    /\ completions = <<>>
    /\ response = Json(400, InvalidReference)

\* the outcome of getTranscript when every cleanup command succeeds: a
\* function of what was read or thrown before the cleanup ran
OutcomeWithoutCleanupFailure ==
    IF videoId = Null THEN Thrown(InvalidReference)
    ELSE IF vttContent # Null
    THEN IF IsEmptyTranscript(parseVTT(vttContent))
         THEN Thrown(NoCaptionsAvailable)
         ELSE Returned(parseVTT(vttContent))
    ELSE IF subtitleFile = NoFile THEN Thrown(NoCaptionsAvailable)
    ELSE Thrown(ExtractionFailed)

\* C11: a failing temp-file cleanup never changes the outcome of
\* getTranscript: whether the cleanup commands succeeded or failed, the call
\* returns the transcript, or throws the kind, that the state before the
\* cleanup determines.
C11_CleanupFailureKeepsOutcome ==
    pc = "gt_return" =>
        /\ gtResult = OutcomeWithoutCleanupFailure
        /\ gtResult.kind = "returned" => gtResult.value = transcript

C11_Witness ==
    /\ pc = "gt_return"
    /\ cleanups = <<"failed">>
    /\ gtResult.kind = "returned"
    /\ Glob(fs, tempId) # {}

\* the lines of a content, and those parseVTT takes text from
LinesOf(content) == SplitLines(content)

KeptLines(content) ==
    {k \in 1..Len(LinesOf(content)) : ~Skipped(Trim(LinesOf(content)[k]))}

CleanedAt(content, k) == CleanLine(Trim(LinesOf(content)[k]))

\* the non-empty cleaned cue lines of a content
CleanedCueLines(content) ==
    {CleanedAt(content, k) : k \in KeptLines(content)} \ {<<>>}

\* the list parseVTT joins
JoinedList(content) == TextLines(SplitLines(content), 1, <<>>)

Occurrences(list, x) == Cardinality({i \in 1..Len(list) : list[i] = x})

\* C12: every cleaned cue line of the content, however often and wherever
\* it occurs, is exactly once in the list parseVTT joins; lines that differ
\* in any character are both kept.
C12_RepeatedLineOnce ==
    pc = "pv_done" =>
        /\ \A x \in CleanedCueLines(vttContent) :
              Occurrences(JoinedList(vttContent), x) = 1
        /\ Len(JoinedList(vttContent)) = Cardinality(CleanedCueLines(vttContent))
        /\ transcript = Join(JoinedList(vttContent), <<" ">>)

\* "hi you", "Hi you", then "hi you" again under cue markup
C12_Witness ==
    /\ pc = "pv_done"
    /\ vttContent = Join(<<ParseLines[7], ParseLines[9], ParseLines[8]>>, <<"\n">>)
    /\ transcript = <<"h", "i", " ", "y", "o", "u", " ", "H", "i", " ", "y", "o", "u">>

\* text holding a tag the cleaning would strip, or an entity it would decode
HasTag(t) ==
    \E i \in 1..Len(t) : \E j \in (i + 2)..Len(t) :
        /\ t[i] = "<"
        /\ t[j] = ">"
        /\ \A k \in (i + 1)..(j - 1) : t[k] # ">"

Entities ==
    { <<"&", "n", "b", "s", "p", ";">>, <<"&", "a", "m", "p", ";">>,
      <<"&", "l", "t", ";">>, <<"&", "g", "t", ";">>,
      <<"&", "q", "u", "o", "t", ";">>, <<"&", "#", "3", "9", ";">> }

HasEntity(t) == \E e \in Entities : Includes(t, e)

\* an output with nothing left to strip, decode or skip
CleanOutput(t) == t = <<>> \/ (~HasTag(t) /\ ~HasEntity(t) /\ ~Skipped(t))

\* C13 as stated: parsing the output of parseVTT again gives the same
\* output, for every content.
C13_ParseTwiceEqualsOnce ==
    pc = "pv_twice" => transcript = vttContent

\* C13, amended: parsing the output of parseVTT again gives the same output
\* whenever that output is empty or holds no tag, no entity and is not a
\* line parseVTT skips.
C13_IdempotentOnCleanOutput ==
    (pc = "pv_twice" /\ CleanOutput(vttContent)) => transcript = vttContent

\* "hi you me & u" parsed again
C13_Witness ==
    /\ pc = "pv_twice"
    /\ vttContent = <<"h", "i", " ", "y", "o", "u", " ", "m", "e", " ", "&", " ", "u">>
    /\ CleanOutput(vttContent)
    /\ transcript = vttContent

\* the line forms that contribute no text, as the claim lists them
OnlyOf(t, chars) == t # <<>> /\ \A i \in 1..Len(t) : t[i] \in chars

ExcludedForm(t) ==
    \/ t = <<"W", "E", "B", "V", "T", "T">>
    \/ StartsWith(t, <<"K", "i", "n", "d", ":">>)
    \/ StartsWith(t, <<"L", "a", "n", "g", "u", "a", "g", "e", ":">>)
    \/ OnlyOf(t, Digit)
    \/ Includes(t, <<"-", "-", ">">>)
    \/ OnlyOf(t, Digit \cup {":", ".", ",", " ", "\t", "\r", "-", ">"})

\* the lines that contribute text, and those among them whose text no
\* earlier contributing line has
Contributing(content) ==
    {k \in 1..Len(LinesOf(content)) :
        /\ Trim(LinesOf(content)[k]) # <<>>
        /\ ~ExcludedForm(Trim(LinesOf(content)[k]))
        /\ CleanedAt(content, k) # <<>>}

FirstOccurrences(content) ==
    {k \in Contributing(content) :
        \A j \in Contributing(content) :
            j < k => CleanedAt(content, j) # CleanedAt(content, k)}

RECURSIVE TextsFrom(_, _)
TextsFrom(content, k) ==
    IF k > Len(LinesOf(content)) THEN <<>>
    ELSE (IF k \in FirstOccurrences(content)
          THEN <<CleanedAt(content, k)>> ELSE <<>>)
         \o TextsFrom(content, k + 1)

\* C14: the transcript is the cleaned text of the lines that are not the
\* WEBVTT header, a Kind:/Language: line, a cue index, a line with "-->" or
\* a line of only digits, colons, periods, commas, whitespace and arrow
\* characters, each text once, in file order of first occurrence, joined
\* by single spaces.
C14_LineFilterAndJoin ==
    pc = "pv_done" => transcript = Join(TextsFrom(vttContent, 1), <<" ">>)

\* a cue index, a timing residue and a cue line with markup and padding
C14_Witness ==
    /\ pc = "pv_done"
    /\ vttContent = Join(<<ParseLines[5], ParseLines[6], ParseLines[8]>>, <<"\n">>)
    /\ transcript = <<"h", "i", " ", "y", "o", "u">>

----------------------------------------------------------------------------
(* Properties of generateNotes                                             *)

SingleStepIntents == {"learn", "reference", "action"}

\* C15 as stated: a call of generateNotes with one of the single-step
\* intents has issued exactly one completion call when it ends.
C15_ExactlyOneCall ==
    (pc = "gn_return" /\ intent \in SingleStepIntents) => Len(completions) = 1

\* C15, amended: with a single-step intent generateNotes never issues a
\* second completion call, and when it ends it has issued exactly one,
\* whatever that call returned, unless the API key is not configured, in
\* which case it has issued none.
C15_OneCallWhenConfigured ==
    intent \in SingleStepIntents =>
        /\ Len(completions) <= 1
        /\ pc = "gn_return" =>
              Len(completions) = (IF notesError = NoApiKeyMsg THEN 0 ELSE 1)

\* a text with a forbidden word is returned as it is: no fallback
C15_Witness ==
    /\ pc = "gn_return"
    /\ intent = "reference"
    /\ Len(completions) = 1
    /\ ForbiddenTest(completions[1].content)
    /\ notesResult = Returned(completions[1].content)

\* which call of the overview branch a logged call is, by its prompt
PromptOf(call) == call.request.system[1].name

IsFastCall(call) ==
    PromptOf(call) \in {"EDUCATIONAL_OVERVIEW_PROMPT", "ENTERTAINMENT_OVERVIEW_PROMPT"}

IsScopeCall(call) ==
    PromptOf(call) \in {"OVERVIEW_SCOPE_PROMPT", "EDUCATIONAL_OVERVIEW_SCOPE_PROMPT",
                        "ENTERTAINMENT_OVERVIEW_SCOPE_PROMPT"}

IsRewriteCall(call) ==
    PromptOf(call) \in {"OVERVIEW_REWRITE_PROMPT", "EDUCATIONAL_OVERVIEW_REWRITE_PROMPT",
                        "ENTERTAINMENT_OVERVIEW_REWRITE_PROMPT"}

\* the call answered with text, rather than with nothing or a rejection
GaveText(call) == call.content \notin {Null, <<>>, Threw}

\* the fast-path call was issued and answered
FastAnswered ==
    /\ intent = "overview"
    /\ completions # <<>>
    /\ IsFastCall(completions[1])
    /\ completions[1].content # Threw

\* the fast-path result holds a forbidden word
FastTainted ==
    /\ FastAnswered
    /\ GaveText(completions[1])
    /\ ForbiddenTest(completions[1].content)

\* C16 as stated: after a fast-path result with a forbidden word, the call
\* ends having issued exactly two further calls, subject extraction and
\* then rewrite, and what it returns is the rewrite call's output.
C16_TwoFurtherCalls ==
    (pc = "gn_return" /\ FastTainted) =>
        /\ Len(completions) = 3
        /\ IsScopeCall(completions[2])
        /\ IsRewriteCall(completions[3])
        /\ notesResult.kind = "returned" => notesResult.value = completions[3].content

\* C16, amended: after a fast-path result with a forbidden word, the
\* subject-extraction call is always issued and the rewrite call follows it
\* unless the extraction was rejected or gave no content (then the call
\* fails after that one further call); never more than two further calls
\* are issued, and text is returned only after the rewrite call and is
\* that call's output.
C16_FallbackAfterTaintedFastPath ==
    FastTainted =>
        /\ Len(completions) <= 3
        /\ pc = "gn_return" =>
              /\ Len(completions) >= 2
              /\ IsScopeCall(completions[2])
              /\ Len(completions) = 2 =>
                    /\ ~GaveText(completions[2])
                    /\ notesResult = Thrown(GenerationFailed)
        /\ Len(completions) = 3 => IsRewriteCall(completions[3])
        /\ notesResult.kind = "returned" =>
              /\ Len(completions) = 3
              /\ notesResult.value = completions[3].content

C16_Witness ==
    /\ pc = "gn_return"
    /\ FastTainted
    /\ Len(completions) = 3
    /\ completions[3].content = <<"T", "h", "e", " ", "v", "i", "d", "e", "o">>
    /\ notesResult = Returned(completions[3].content)

\* C17: for the overview intent, when the fast-path call returns non-empty
\* text in which the forbidden pattern finds nothing, generateNotes ends
\* with that one completion call and returns that text unchanged.
C17_CleanFastPathIsReturned ==
    (FastAnswered /\ GaveText(completions[1])
        /\ ~ForbiddenTest(completions[1].content)) =>
        /\ Len(completions) = 1
        /\ pc = "gn_return"
        /\ notesResult = Returned(completions[1].content)

\* "monkeys" holds "keys", but not between word boundaries
C17_Witness ==
    /\ pc = "gn_return"
    /\ FastAnswered
    /\ Len(completions) = 1
    /\ completions[1].content = <<"m", "o", "n", "k", "e", "y", "s">>
    /\ notesResult = Returned(<<"m", "o", "n", "k", "e", "y", "s">>)

\* the call was answered, with no content (absent or the empty string)
NoContent(call) == call.content \in {Null, <<>>}

\* C18: in the overview pipeline, a subject-extraction call answered with
\* no content is the last call issued (no rewrite call follows) and
\* generateNotes fails with GenerationFailed; a rewrite call answered with
\* no content makes generateNotes fail with GenerationFailed.
C18_NoContentIsGenerationFailed ==
    \A k \in 1..Len(completions) :
        (/\ intent = "overview"
         /\ IsScopeCall(completions[k]) \/ IsRewriteCall(completions[k])
         /\ NoContent(completions[k])) =>
            /\ Len(completions) = k
            /\ pc = "gn_return"
            /\ notesResult = Thrown(GenerationFailed)

\* the fast path fell back and the extraction returned nothing
C18_Witness ==
    /\ pc = "gn_return"
    /\ intent = "overview"
    /\ Len(completions) = 2
    /\ IsScopeCall(completions[2])
    /\ completions[2].content = <<>>
    /\ notesResult = Thrown(GenerationFailed)

\* the parts of a request's messages
PartsOf(call) ==
    {call.request.system[i] : i \in 1..Len(call.request.system)}
    \cup {call.request.user[i] : i \in 1..Len(call.request.user)}

\* C19: a rewrite call is issued only after a subject-extraction call that
\* came back with text, and its messages are the rewrite prompt, a newline
\* and the text that extraction returned: no user message, and the
\* transcript in no part.
C19_RewriteSeededBySubjectsOnly ==
    \A k \in 1..Len(completions) :
        IsRewriteCall(completions[k]) =>
            /\ k >= 2
            /\ IsScopeCall(completions[k - 1])
            /\ GaveText(completions[k - 1])
            /\ completions[k].request.user = <<>>
            /\ Len(completions[k].request.system) = 3
            /\ completions[k].request.system[1].kind = "prompt"
            /\ completions[k].request.system[3]
                  = TextPart("subjects", completions[k - 1].content)
            /\ \A part \in PartsOf(completions[k]) :
                  part.name # "transcript" /\ part.text # transcript

C19_Witness ==
    /\ Len(completions) = 3
    /\ IsRewriteCall(completions[3])
    /\ transcript = parseVTT(VttRolling)
    /\ completions[2].content = <<"-", " ", "A", "\n", "-", " ", "B">>
    /\ completions[3].request.system[3].text = <<"-", " ", "A", "\n", "-", " ", "B">>

\* the state of the overview state machine a state of the call is in
OverviewState ==
    IF pc = "gn_start" THEN "Start"
    ELSE IF pc = "gn_fast" THEN "FastAttempt"
    ELSE IF pc = "gn_scope" THEN "ExtractSubjects"
    ELSE IF pc = "gn_rewrite" THEN "RewriteFromSubjects"
    ELSE IF pc = "gn_return" /\ notesResult.kind = "returned" THEN "Accepted"
    ELSE IF pc = "gn_return" /\ notesResult = Thrown(GenerationFailed)
    THEN "GenerationFailed"
    ELSE "other"

HasFastPath == notesRev = "route_overview"

\* the steps of the state machine; every non-terminal state may also fail
OverviewSteps ==
    (IF HasFastPath THEN {<<"Start", "FastAttempt">>}
     ELSE {<<"Start", "ExtractSubjects">>})
    \cup { <<"FastAttempt", "Accepted">>,
           <<"FastAttempt", "ExtractSubjects">>,
           <<"ExtractSubjects", "RewriteFromSubjects">>,
           <<"RewriteFromSubjects", "Accepted">> }
    \cup {<<st, "GenerationFailed">> :
            st \in {"Start", "FastAttempt", "ExtractSubjects", "RewriteFromSubjects"}}

\* C20 as stated: an overview call ends in Accepted or GenerationFailed
\* having issued between one and three completion calls, the first of them
\* the fast attempt.
C20_FastAttemptOneToThreeCalls ==
    (intent = "overview" /\ pc = "gn_return") =>
        /\ OverviewState \in {"Accepted", "GenerationFailed"}
        /\ Len(completions) \in 1..3
        /\ IsFastCall(completions[1])

\* the calls issued so far, against the state the call is in
OverviewCalls ==
    LET n == Len(completions)
        first == IF HasFastPath THEN 0 ELSE 1
    IN  /\ n <= 3 - first
        /\ \A k \in 1..n :
              IF k + first = 1 THEN IsFastCall(completions[k])
              ELSE IF k + first = 2 THEN IsScopeCall(completions[k])
              ELSE IsRewriteCall(completions[k])
        /\ OverviewState = "Start" => n = 0
        /\ OverviewState = "FastAttempt" => n = 0
        /\ OverviewState = "ExtractSubjects" => n + first = 1
        /\ OverviewState = "RewriteFromSubjects" => n + first = 2
        /\ OverviewState = "Accepted" =>
              /\ n >= 1
              /\ notesResult.value = completions[n].content
              /\ GaveText(completions[n])
              /\ ~IsScopeCall(completions[n])
        /\ OverviewState = "GenerationFailed" =>
              (n = 0) = (notesError = NoApiKeyMsg)

\* C20, amended: an overview call moves only along Start -> FastAttempt ->
\* {Accepted | ExtractSubjects} -> RewriteFromSubjects -> Accepted (from
\* Start straight to ExtractSubjects in the revision without a fast path),
\* or from any of these states to GenerationFailed; it reaches Accepted or
\* GenerationFailed and stays there; it never issues more than three
\* completion calls, and issues none only when the API key is missing.
C20_OverviewStateMachine ==
    /\ [](intent = "overview" => OverviewState # "other" /\ OverviewCalls)
    /\ [][intent = "overview" => <<OverviewState, OverviewState'>> \in OverviewSteps]_vars
    /\ (intent = "overview") ~> (OverviewState \in {"Accepted", "GenerationFailed"})

\* fast attempt, extraction, rewrite: three calls and Accepted
C20_Witness ==
    /\ intent = "overview"
    /\ OverviewState = "Accepted"
    /\ Len(completions) = 3
    /\ IsFastCall(completions[1])
    /\ NoContent(completions[1])

\* a call rejected by the completion service (the awaited create call threw)
Rejected(call) == call.content = Threw

\* C21: no completion call is tried again.  A rejected completion call is
\* the last call generateNotes issues, generateNotes has then ended with
\* GenerationFailed, and no request is ever sent twice.
C21_NoRetryAfterFailure ==
    /\ \A k \in 1..Len(completions) :
          Rejected(completions[k]) =>
              /\ Len(completions) = k
              /\ pc = "gn_return"
              /\ notesResult = Thrown(GenerationFailed)
    /\ \A j, k \in 1..Len(completions) :
          j < k => completions[j].request # completions[k].request

C21_Witness ==
    /\ pc = "gn_return"
    /\ Len(completions) = 2
    /\ GaveText(completions[1])
    /\ Rejected(completions[2])
    /\ notesResult = Thrown(GenerationFailed)

\* what can go wrong inside the try block of generateNotes
UnderlyingErrors ==
    {NoApiKeyMsg, "completion request failed", "Failed to extract subjects",
     "Failed to generate overview", "No content in response",
     "No content returned from model"}

\* C22: a call of generateNotes that fails throws GenerationFailed and
\* nothing else, whatever went wrong underneath (no credential, a rejected
\* completion call, a completion without content); the text of the
\* underlying error is not what the caller gets.
C22_FailureIsGenerationFailed ==
    /\ notesResult.kind = "thrown" =>
          /\ notesResult = Thrown(GenerationFailed)
          /\ notesError \in UnderlyingErrors
          /\ notesResult.message # notesError
    /\ notesError # NoError => notesResult = Thrown(GenerationFailed)

C22_Witness ==
    /\ pc = "gn_return"
    /\ completions = <<>>
    /\ notesError = NoApiKeyMsg
    /\ notesResult = Thrown(GenerationFailed)

\* C23: generateNotes never returns nothing.  What it returns is the text
\* of the last completion call, never empty and never absent; and when the
\* last completion call of an ended generateNotes had no content, it ended
\* with GenerationFailed.
C23_NeverReturnsEmpty ==
    /\ notesResult.kind = "returned" =>
          /\ completions # <<>>
          /\ notesResult.value = completions[Len(completions)].content
          /\ notesResult.value \notin {Null, <<>>, Threw}
    /\ (/\ pc = "gn_return"
        /\ completions # <<>>
        /\ NoContent(completions[Len(completions)])) =>
            notesResult = Thrown(GenerationFailed)

C23_Witness ==
    /\ pc = "gn_return"
    /\ Len(completions) = 1
    /\ ~IsFastCall(completions[1])
    /\ ~IsScopeCall(completions[1])
    /\ completions[1].content = <<>>
    /\ notesResult = Thrown(GenerationFailed)

----------------------------------------------------------------------------
(* Properties of POST /api/generate-notes                                  *)

\* C25: the status tells user errors from system errors.  A request whose
\* extraction failed with NoCaptionsAvailable is answered 422, one whose
\* url is no YouTube url 400, one whose generation failed 500.
C25_StatusByErrorKind ==
    pc = "post_done" =>
        /\ gtResult = Thrown(NoCaptionsAvailable) => response.status = 422
        /\ gtResult = Thrown(InvalidReference) => response.status = 400
        /\ notesResult = Thrown(GenerationFailed) => response.status = 500

\* the system messages generateNotes has a template for
PromptTemplates == {PromptPart(i) : i \in PromptIntents[notesRev]}

\* the request was turned down by the intent validation
IntentTurnedDown ==
    /\ pc = "post_done"
    /\ body.ok
    /\ ~UrlRejected(body.url)
    /\ IntentRejected(body.intent)

\* C26: the intents the handler accepts and the intents generateNotes has a
\* prompt strategy for are the same.  The system message of every
\* completion call made for an accepted intent is one of the prompt
\* templates, never undefined; and no intent of generateNotes' Intent type
\* is turned down by the handler.
C26_AcceptedIntentsHavePrompts ==
    /\ \A k \in 1..Len(completions) :
          completions[k].request.system[1] \in PromptTemplates
    /\ IntentTurnedDown =>
          ~(body.intent.t = "string" /\ body.intent.w \in IntentsOf[notesRev])

\* neither getTranscript nor generateNotes has been entered
NothingInvoked ==
    /\ pc \in {"post_start", "post_done"}
    /\ TranscriptIdle
    /\ NotesIdle
    /\ transcript = Null

\* C27: a request whose url is missing or no string, or whose intent is
\* missing or not among validIntents, is answered 400 without getTranscript
\* or generateNotes being entered; and every request is answered: 200 with
\* the notes only when both stages returned, otherwise 400, 422 or 500 with
\* an error message, which is the message of what was thrown.
C27_ValidatedThenAnswered ==
    /\ (~body.ok \/ UrlRejected(body.url) \/ IntentRejected(body.intent)) =>
          /\ NothingInvoked
          /\ pc = "post_done" => response.status = 400
    /\ pc = "post_done" =>
          /\ response.status \in {200, 400, 422, 500}
          /\ response.status = 200 <=>
                (gtResult.kind = "returned" /\ notesResult.kind = "returned")
          /\ response.status = 200 => response.json = "notes"
          /\ response.status # 200 => response.json \notin {"notes", "none", ""}
          /\ gtResult.kind = "thrown" => response.json = gtResult.message
          /\ notesResult.kind = "thrown" => response.json = notesResult.message

----------------------------------------------------------------------------
(* Properties of concurrent getTranscript calls                            *)

\* a step of the call followed, and a step of another call
OwnStep == pc' # pc \/ log' # log
OtherStep == ~OwnStep /\ fs' # fs

\* the files of `files` whose name starts with the temp prefix of `id`
FilesOf(files, id) == {f \in DOMAIN files : f[1] = id}

\* f is in both directories with the same content
Kept(f) == f \in DOMAIN fs' /\ fs'[f] = fs[f]

\* C24: however the steps of concurrent getTranscript calls fall, each call
\* works under a temp prefix of its own: the file a call selects and reads
\* is one of its own prefix and is still there when it comes to read it, a
\* step of the call leaves every file of another prefix as it was, and a
\* step of another call leaves every file of this call's prefix as it was.
C24_CallsKeepToTheirOwnFiles ==
    /\ [](/\ tempId \notin OtherIds
          /\ subtitleFile # NoFile => subtitleFile[1] = tempId
          /\ (pc = "gt_read" /\ subtitleFile # NoFile) => Exists(fs, subtitleFile)
          /\ vttContent # Null => subtitleFile[1] = tempId)
    /\ [][/\ OwnStep =>
                \A f \in DOMAIN fs \cup DOMAIN fs' :
                    f[1] # tempId' => f \in DOMAIN fs /\ Kept(f)
          /\ OtherStep =>
                /\ \A f \in FilesOf(fs, tempId) : Kept(f)
                /\ FilesOf(fs', tempId) = FilesOf(fs, tempId)]_vars

\* this call has read its own English file while another call's file for
\* the same language sits next to it
C24_Witness ==
    /\ pc = "gt_cleanup"
    /\ subtitleFile = File(tempId, EN)
    /\ \E id \in OtherIds : Exists(fs, File(id, EN))
    /\ vttContent = fs[subtitleFile]

====
